---- MODULE Spec2Model ----
(***************************************************************************)
(* Model of general_utils/single_sheet_report.py: create_report_from,      *)
(* get_report_df_from and _get_score_for_method_.                          *)
(*                                                                         *)
(* One behaviour is one call of create_report_from.  The store, the        *)
(* caller's arguments and the answers of the caller's scoring function are *)
(* the inputs; the pandas objects (MultiIndex, Index, DataFrame) are       *)
(* modelled by their labels and cells.                                     *)
(***************************************************************************)
EXTENDS Integers, Sequences, FiniteSets, TLC

\* ------------------------------------------------------------------ bounds
MaxMethods == 2      \* longest requested method list
MaxFields == 2       \* longest field_names list
MaxHandlers == 2     \* most handlers of a logger
MaxGuards == 2       \* TqdmLogFormatter objects of the with statements
MaxDepth == 3        \* deepest nesting of open scopes

\* ------------------------------------------------------------ input domain
\* db_client.get_all_methods() / get_all_datasets() of the modelled store
StoreMethods == <<"M1", "M2">>
StoreDatasets == <<"A", "B", "C">>
\* names a caller may request: the store's methods and two unknown names
RequestNames == {"M1", "M2", "ghost", "phantom"}
\* Method.datasets of a stored method; "Z" is a dataset the store does not list
RunLists == {<< >>, <<"A", "B">>, <<"B", "C">>, <<"B", "Z">>}
FieldPool == <<"score", "time", "extra">>
DTypePool == <<"str", "float", "float">>

Range(s) == {s[i] : i \in DOMAIN s}
NoDup(s) == \A i, j \in DOMAIN s : i # j => s[i] # s[j]
SeqsUpTo(S, n) == UNION {[1..k -> S] : k \in 0..n}
Last(s) == s[Len(s)]

\* --------------------------------------------------------------- values
\* A cell value: a python int, a python str (n > 0: the digits of n), a
\* float, or null (None / NaN).
IntV(n) == [t |-> "int", n |-> n]
StrV(n) == [t |-> "str", n |-> n]
FloatV(n) == [t |-> "float", n |-> n]
Null == [t |-> "null", n |-> 0]
IsNull(v) == v.t = "null"

\* What score_func(run_query) does: returns a bare scalar, returns a tuple,
\* or raises an exception whose text is msg.
Scalar(v) == [k |-> "scalar", v |-> <<v>>, msg |-> << >>]
Tuple(vs) == [k |-> "tuple", v |-> vs, msg |-> << >>]
Raise(msg) == [k |-> "raise", v |-> << >>, msg |-> msg]
\* the tuples the modelled scoring functions return: an int, then a
\* non-numeric str ("x")
TupleOf(n) == [i \in 1..n |-> IF i = 1 THEN IntV(1) ELSE StrV(0)]
ScoreResults ==
    {Scalar(IntV(1)), Scalar(Null)}
    \cup {Tuple(TupleOf(n)) : n \in 1..MaxFields}
    \cup {Raise(<< >>), Raise(<<"boom">>)}

\* --------------------------------------------------------------- errors
NoErr == [kind |-> "none", text |-> << >>]
Exc(kind, text) == [kind |-> kind, text |-> text]
\* MethodNotFound(', '.join(errors)): the text is the joined names
MethodNotFound(names) == Exc("MethodNotFound", names)
\* str(e)
Str(e) == e.text

\* ---------------------------------------------------------------- calls
Call(op, d, m) == [op |-> op, d |-> d, m |-> m]

VARIABLES
    methods,          \* argument: list of method names
    field_names,      \* argument: list of field names
    dtypes,           \* argument: list of dtypes
    method_datasets,  \* store: Method.datasets of each stored method
    pc,               \* position in create_report_from / get_report_df_from
    calls,            \* calls on the store, the handles, score_func and report
    index,            \* report.index (row labels)
    columns,          \* report.columns ((field, method) labels)
    cells,            \* report's cells
    instances,        \* all_dataset_instances
    file_clients,     \* keys of all_file_clients
    mi,               \* position of the for loop over methods
    di,               \* position of the for loop over dataset_list
    data,             \* the list data of _get_score_for_method_
    analysis,         \* the frame _get_score_for_method_ returns (its rows)
    returned,         \* what score_func returned, per (dataset, method)
    err,              \* the exception in flight
    exported,         \* utils.df_to_tmp_excel was called
    out,              \* what create_report_from returned
    handlers,         \* logger.handlers: formatter and terminator of each
    scopes,           \* the open TqdmLogFormatter scopes, innermost last
    original_formatters,  \* __original_formatters of each TqdmLogFormatter
    before,           \* handlers when the outermost open scope was entered
    emitted           \* formatter and terminator of the last logger.info

logging == <<handlers, scopes, original_formatters, before, emitted>>

vars == <<methods, field_names, dtypes, method_datasets, pc, calls, index,
          columns, cells, instances, file_clients, mi, di, data, analysis,
          returned, err, exported, out, logging>>

NoOut == <<"no return">>

\* ------------------------------------------------------- pandas helpers
\* pd.MultiIndex.from_product([fs, ms]): field-major, method-minor
FromProduct(fs, ms) ==
    [i \in 1..(Len(fs) * Len(ms)) |->
        <<fs[((i - 1) \div Len(ms)) + 1], ms[((i - 1) % Len(ms)) + 1]>>]

\* pd.DataFrame(data=[], index=idx, columns=cols): every cell null
EmptyFrame(idx, cols) == [p \in Range(idx) \X Range(cols) |-> Null]

\* set(methods) - set(all_methods)
UnknownMethods_swapped(req, known) == Range(known) \ Range(req)
UnknownMethods(req, known) == Range(req) \ Range(known)

\* the orders list(a_set) can produce
Orders(S) == {s \in [1..Cardinality(S) -> S] : Range(s) = S}

\* one appended row of data: [d] + list(score) for a tuple, [d, score] else
ScoreRow_inverted(d, r) == IF r.k # "tuple" THEN <<d>> \o r.v ELSE <<d, r.v[1]>>
ScoreRow(d, r) == IF r.k = "tuple" THEN <<d>> \o r.v ELSE <<d, r.v[1]>>

\* pd.DataFrame(data=rows, columns=cols): rows are padded with None to the
\* longest row, and the frame exists iff that width is the number of columns
MaxWidth(rows) ==
    IF rows = << >> THEN 0
    ELSE CHOOSE w \in {Len(rows[i]) : i \in DOMAIN rows} :
            \A i \in DOMAIN rows : Len(rows[i]) <= w
FrameOk(rows, ncols) == rows = << >> \/ MaxWidth(rows) = ncols
Pad(row, n) == [j \in 1..n |-> IF j <= Len(row) THEN row[j] ELSE Null]
Frame(rows, ncols) == [i \in DOMAIN rows |-> Pad(rows[i], ncols)]

\* report.loc[rows of fv, product(fields, [m])] = fv.iloc[:, 1:].values
FieldPos(fields, f) == CHOOSE j \in DOMAIN fields : fields[j] = f
RowOf(fv, d) == CHOOSE i \in DOMAIN fv : fv[i][1] = d
MergeMethod_allMethods(cs, fv, fields, m) ==
    [p \in DOMAIN cs |->
        IF \E i \in DOMAIN fv : fv[i][1] = p[1]
        THEN fv[RowOf(fv, p[1])][FieldPos(fields, p[2][1]) + 1]
        ELSE cs[p]]
MergeMethod(cs, fv, fields, m) ==
    [p \in DOMAIN cs |->
        IF p[2][2] = m /\ (\E i \in DOMAIN fv : fv[i][1] = p[1])
        THEN fv[RowOf(fv, p[1])][FieldPos(fields, p[2][1]) + 1]
        ELSE cs[p]]

\* report.dropna(axis="index", how="all"): the rows that keep a non-null cell
KeepsRow(cs, cols, d) == \E c \in Range(cols) : ~IsNull(cs[<<d, c>>])
DropNaIndex_keepAll(idx, cols, cs) == idx
DropNaIndex(idx, cols, cs) ==
    SelectSeq(idx, LAMBDA d : KeepsRow(cs, cols, d))
DropNaColumns_how_all(idx, cols, cs) ==
    SelectSeq(cols, LAMBDA c : \E d \in Range(idx) : ~IsNull(cs[<<d, c>>]))
DropNaColumns(idx, cols, cs) == cols

\* col_to_dtype = {column: dtype for column, dtype in zip(field_names, dtypes)}
\* A key is the flat label <<field>>; a column of the report has the
\* two-level label <<field, method>>.
Min(a, b) == IF a <= b THEN a ELSE b
ColToDtypeKeys(fields, dts) == {<<fields[i]>> : i \in 1..Min(Len(fields), Len(dts))}
DtypeOfKey(fields, dts, key) ==
    dts[CHOOSE i \in 1..Min(Len(fields), Len(dts)) : <<fields[i]>> = key]

\* `key in report` (MultiIndex.__contains__), the check astype makes of every
\* key of the mapping before casting: the key is a full label or the leading
\* levels of the label of some column.  A MultiIndex without columns holds
\* no key, also not one that is among its levels.
KeyInFrame(key, cols) ==
    \E c \in Range(cols) : Len(key) <= Len(c) /\ SubSeq(c, 1, Len(key)) = key

\* the entry of col_to_dtype astype applies to a column: looked up by the
\* column's own label, which for the report is the pair <<field, method>>
KeyOfColumn(c, keys) == {k \in keys : k = c}

\* Series.astype(dtype, errors="raise") on one value
Castable(v, dt) ==
    CASE dt = "float" -> ~(v.t = "str" /\ v.n = 0)
      [] dt = "str" -> TRUE
      [] OTHER -> FALSE
Cast(v, dt) ==
    CASE dt = "float" -> IF IsNull(v) THEN Null ELSE FloatV(v.n)
      [] dt = "str" -> IF IsNull(v) THEN StrV(-1) ELSE StrV(v.n)
      [] OTHER -> v

\* report.astype(col_to_dtype): which cells fail, and the cast cells
AsTypeFails(cs, cols, fields, dts) ==
    \E p \in DOMAIN cs :
        \E k \in KeyOfColumn(p[2], ColToDtypeKeys(fields, dts)) :
            ~Castable(cs[p], DtypeOfKey(fields, dts, k))
AsType(cs, cols, fields, dts) ==
    [p \in DOMAIN cs |->
        LET ks == KeyOfColumn(p[2], ColToDtypeKeys(fields, dts))
        IN  IF ks = {} THEN cs[p]
            ELSE Cast(cs[p], DtypeOfKey(fields, dts, CHOOSE k \in ks : TRUE))]

\* -------------------------------------------------------------- inputs
MethodLists == {s \in SeqsUpTo(RequestNames, MaxMethods) : NoDup(s)}
FieldLists == {SubSeq(FieldPool, 1, k) : k \in 1..MaxFields}
DTypeLists(fields) == {SubSeq(DTypePool, 1, k) : k \in {0, Len(fields)}}

\* ------------------------------------------------------------- logging
\* logging_logic.py lines 12-17: API_LOGGER has the one stdout handler with
\* the module's formatter and StreamHandler's terminator
Handler(f, t) == [formatter |-> f, terminator |-> t]
ModuleHandlers == <<Handler("module", "\n")>>
Unset == <<"unset">>
LoggingImported ==
    /\ handlers = ModuleHandlers
    /\ scopes = << >>
    /\ original_formatters = [i \in 1..MaxGuards |-> Unset]
    /\ before = handlers
    /\ emitted = << >>

Init ==
    /\ LoggingImported
    /\ methods \in MethodLists
    /\ field_names \in FieldLists
    /\ dtypes \in DTypeLists(field_names)
    /\ method_datasets \in [Range(StoreMethods) -> RunLists]
    /\ pc = "validate"
    /\ calls = << >>
    /\ index = << >>
    /\ columns = << >>
    /\ cells = << >>
    /\ instances = << >>
    /\ file_clients = {}
    /\ mi = 1
    /\ di = 1
    /\ data = << >>
    /\ analysis = << >>
    /\ returned = {}
    /\ err = NoErr
    /\ exported = FALSE
    /\ out = NoOut

inputs == <<methods, field_names, dtypes, method_datasets>>
table == <<index, columns, cells>>
loop == <<mi, di, data, analysis>>

\* ------------------------------------------------- get_report_df_from
\* lines 54-58: all_methods, errors, raise MethodNotFound
Validate ==
    /\ pc = "validate"
    /\ calls' = Append(calls, Call("get_all_methods", "-", "-"))
    /\ LET errors == UnknownMethods(methods, StoreMethods)
       IN  IF errors # {}
           THEN /\ \E names \in Orders(errors) : err' = MethodNotFound(names)
                /\ pc' = "raised"
           ELSE /\ err' = err
                /\ pc' = "get_all_datasets"
    /\ UNCHANGED <<logging, inputs, table, instances, file_clients, loop, returned,
                   exported, out>>

\* line 60
GetAllDatasets ==
    /\ pc = "get_all_datasets"
    /\ calls' = Append(calls, Call("get_all_datasets", "-", "-"))
    /\ pc' = "shape"
    /\ UNCHANGED <<logging, inputs, table, instances, file_clients, loop, returned,
                   err, exported, out>>

\* lines 62-64
BuildShape ==
    /\ pc = "shape"
    /\ columns' = FromProduct(field_names, methods)
    /\ index' = StoreDatasets
    /\ cells' = EmptyFrame(index', columns')
    /\ pc' = "get_dataset"
    /\ UNCHANGED <<logging, inputs, calls, instances, file_clients, loop, returned,
                   err, exported, out>>

\* line 66: one db_client.get_dataset(name) of the comprehension
GetDataset ==
    /\ pc = "get_dataset"
    /\ IF Len(instances) < Len(StoreDatasets)
       THEN LET name == StoreDatasets[Len(instances) + 1]
            IN  /\ calls' = Append(calls, Call("get_dataset", name, "-"))
                /\ instances' = Append(instances, name)
                /\ pc' = pc
       ELSE /\ pc' = "file_client"
            /\ UNCHANGED <<calls, instances>>
    /\ UNCHANGED <<logging, inputs, table, file_clients, loop, returned, err,
                   exported, out>>

\* line 67: one DatasetFileClient(d.absolute_path) of the comprehension
BuildFileClient ==
    /\ pc = "file_client"
    /\ IF Cardinality(file_clients) < Len(instances)
       THEN LET d == instances[Cardinality(file_clients) + 1]
            IN  /\ calls' = Append(calls, Call("file_client", d, "-"))
                /\ file_clients' = file_clients \cup {d}
                /\ pc' = pc
       ELSE /\ pc' = "method"
            /\ UNCHANGED <<calls, file_clients>>
    /\ UNCHANGED <<logging, inputs, table, instances, loop, returned, err, exported,
                   out>>

\* lines 69-70: the head of the for loop over methods
NextMethod ==
    /\ pc = "method"
    /\ IF mi <= Len(methods)
       THEN /\ calls' = Append(calls, Call("get_method", "-", methods[mi]))
            /\ di' = 1
            /\ data' = << >>
            /\ pc' = "score"
       ELSE /\ pc' = "dropna"
            /\ UNCHANGED <<calls, di, data>>
    /\ UNCHANGED <<logging, inputs, table, instances, file_clients, mi, analysis,
                   returned, err, exported, out>>

\* ---------------------------------------------- _get_score_for_method_
\* line 96
DatasetList == method_datasets[methods[mi]]

\* lines 99-106: one iteration of the for loop over dataset_list
\* line 100, the lookup all_file_clients[d] of a missing key
LookupFails ==
    /\ pc = "score"
    /\ di <= Len(DatasetList)
    /\ DatasetList[di] \notin file_clients
    /\ calls' = Append(calls, Call("lookup", DatasetList[di], methods[mi]))
    /\ err' = Exc("KeyError", <<DatasetList[di]>>)
    /\ pc' = "raised"
    /\ UNCHANGED <<logging, inputs, table, instances, file_clients, loop, returned,
                   exported, out>>

\* lines 100-102 with score_func raising
ScoreRaises_swallow ==
    /\ pc = "score"
    /\ di <= Len(DatasetList)
    /\ DatasetList[di] \in file_clients
    /\ \E r \in {x \in ScoreResults : x.k = "raise"} :
        returned' = returned \cup
                {[d |-> DatasetList[di], m |-> methods[mi], r |-> r]}
    /\ calls' = Append(calls, Call("score", DatasetList[di], methods[mi]))
    /\ di' = di + 1
    /\ pc' = pc
    /\ UNCHANGED <<logging, inputs, table, instances, file_clients, mi, data,
                   analysis, err, exported, out>>
ScoreRaises ==
    /\ pc = "score"
    /\ di <= Len(DatasetList)
    /\ DatasetList[di] \in file_clients
    /\ \E r \in {x \in ScoreResults : x.k = "raise"} :
        /\ returned' = returned \cup
                {[d |-> DatasetList[di], m |-> methods[mi], r |-> r]}
        /\ err' = Exc("ScoreError", r.msg)
    /\ calls' = Append(calls, Call("score", DatasetList[di], methods[mi]))
    /\ pc' = "raised"
    /\ UNCHANGED <<logging, inputs, table, instances, file_clients, loop, exported,
                   out>>

\* lines 100-106 with score_func returning
ScoreReturns ==
    /\ pc = "score"
    /\ di <= Len(DatasetList)
    /\ DatasetList[di] \in file_clients
    /\ \E r \in {x \in ScoreResults : x.k # "raise"} :
        /\ returned' = returned \cup
                {[d |-> DatasetList[di], m |-> methods[mi], r |-> r]}
        /\ data' = Append(data, ScoreRow(DatasetList[di], r))
    /\ calls' = Append(calls, Call("score", DatasetList[di], methods[mi]))
    /\ di' = di + 1
    /\ pc' = pc
    /\ UNCHANGED <<logging, inputs, table, instances, file_clients, mi, analysis,
                   err, exported, out>>

\* lines 108-110: the frame of the collected rows
BuildAnalysis ==
    /\ pc = "score"
    /\ di > Len(DatasetList)
    /\ IF FrameOk(data, 1 + Len(field_names))
       THEN /\ analysis' = Frame(data, 1 + Len(field_names))
            /\ pc' = "merge"
            /\ err' = err
       ELSE /\ err' = Exc("ValueError", <<"columns passed">>)
            /\ pc' = "raised"
            /\ analysis' = analysis
    /\ UNCHANGED <<logging, inputs, calls, table, instances, file_clients, mi, di,
                   data, returned, exported, out>>

\* lines 73-74, and the step of the for loop over methods
Merge_thenPrune ==
    /\ pc = "merge"
    /\ cells' = MergeMethod(cells, analysis, field_names, methods[mi])
    /\ calls' = Append(calls, Call("merge", "-", methods[mi]))
    /\ mi' = mi + 1
    /\ pc' = "dropna"
    /\ UNCHANGED <<logging, inputs, index, columns, instances, file_clients, di, data,
                   analysis, returned, err, exported, out>>
Merge ==
    /\ pc = "merge"
    /\ cells' = MergeMethod(cells, analysis, field_names, methods[mi])
    /\ calls' = Append(calls, Call("merge", "-", methods[mi]))
    /\ mi' = mi + 1
    /\ pc' = "method"
    /\ UNCHANGED <<logging, inputs, index, columns, instances, file_clients, di, data,
                   analysis, returned, err, exported, out>>

\* line 76
DropNa ==
    /\ pc = "dropna"
    /\ index' = DropNaIndex(index, columns, cells)
    /\ columns' = DropNaColumns(index, columns, cells)
    /\ cells' = [p \in Range(index') \X Range(columns') |-> cells[p]]
    /\ calls' = Append(calls, Call("dropna", "-", "-"))
    /\ pc' = "astype"
    /\ UNCHANGED <<logging, inputs, instances, file_clients, loop, returned, err,
                   exported, out>>

\* lines 78-81
AsTypeStep ==
    /\ pc = "astype"
    /\ calls' = Append(calls, Call("astype", "-", "-"))
    /\ LET keys == ColToDtypeKeys(field_names, dtypes)
       IN  IF \E k \in keys : ~KeyInFrame(k, columns)
           THEN /\ err' = Exc("KeyError", <<"Only a column name can be used">>)
                /\ pc' = "raised"
                /\ cells' = cells
           ELSE IF AsTypeFails(cells, columns, field_names, dtypes)
           THEN /\ err' = Exc("ValueError", <<"could not convert">>)
                /\ pc' = "raised"
                /\ cells' = cells
           ELSE /\ cells' = AsType(cells, columns, field_names, dtypes)
                /\ pc' = "returned"
                /\ err' = err
    /\ UNCHANGED <<logging, inputs, index, columns, instances, file_clients, loop,
                   returned, exported, out>>

\* ------------------------------------------------- create_report_from
\* lines 35-36
Catch ==
    /\ pc = "raised"
    /\ out' = Str(err)
    /\ pc' = "done"
    /\ UNCHANGED <<logging, inputs, calls, table, instances, file_clients, loop,
                   returned, err, exported>>

\* lines 38-39
Export ==
    /\ pc = "returned"
    /\ exported' = TRUE
    /\ out' = << >>
    /\ pc' = "done"
    /\ UNCHANGED <<logging, inputs, calls, table, instances, file_clients, loop,
                   returned, err>>

Next ==
    \/ Validate
    \/ GetAllDatasets
    \/ BuildShape
    \/ GetDataset
    \/ BuildFileClient
    \/ NextMethod
    \/ LookupFails
    \/ ScoreRaises
    \/ ScoreReturns
    \/ BuildAnalysis
    \/ Merge
    \/ DropNa
    \/ AsTypeStep
    \/ Catch
    \/ Export

Spec == Init /\ [][Next]_vars

\* ==================================================================
\* Properties
\* ==================================================================
\* get_report_df_from returned a table / raised
Succeeded == pc = "returned" \/ exported
Failed == pc = "raised" \/ (pc = "done" /\ ~exported)
Known(m) == \E i \in DOMAIN StoreMethods : StoreMethods[i] = m
Requested(m) == \E i \in DOMAIN methods : methods[i] = m
CallsOf(op) == {i \in DOMAIN calls : calls[i].op = op}

\* C1: a call whose method list holds a name unknown to the store fails
\* with MethodNotFound; the message holds exactly the requested unknown
\* names, each once, and nothing but get_all_methods was called: no table,
\* no handle, no scoring.
C1_UnknownMethodFailsFast ==
    (pc # "validate" /\ \E m \in RequestNames : Requested(m) /\ ~Known(m)) =>
        /\ Failed
        /\ err.kind = "MethodNotFound"
        /\ \A m \in RequestNames :
              (Requested(m) /\ ~Known(m)) <=>
                  Cardinality({i \in DOMAIN err.text : err.text[i] = m}) = 1
        /\ Len(err.text) <= Len(methods)
        /\ calls = <<Call("get_all_methods", "-", "-")>>
        /\ index = << >> /\ columns = << >> /\ cells = << >>
        /\ instances = << >> /\ file_clients = {} /\ returned = {}

C1_Witness ==
    /\ pc = "raised"
    /\ err.kind = "MethodNotFound"
    /\ Len(err.text) = 1
    /\ Len(methods) = 2
    /\ \E i \in DOMAIN methods : Known(methods[i])

\* C2: the columns of a returned table are exactly field_names x methods,
\* each pair once, however many rows were pruned.
C2_ColumnsAreProduct ==
    Succeeded =>
        /\ \A f \in Range(FieldPool), m \in RequestNames :
              (f \in Range(field_names) /\ Requested(m)) <=>
                  Cardinality({i \in DOMAIN columns : columns[i] = <<f, m>>}) = 1
        /\ Len(columns) = Len(field_names) * Len(methods)

C2_Witness ==
    /\ pc = "returned"
    /\ Len(columns) = 4
    /\ Len(index) = 1
    /\ \E c \in Range(columns) : \A d \in Range(index) : IsNull(cells[<<d, c>>])

\* C3: every row of a returned table has a non-null cell, and a dataset
\* for which score_func returned no non-null value for any requested method
\* is not a row.
C3_NoAllNullRow ==
    Succeeded =>
        /\ \A d \in Range(index) :
              \E i \in DOMAIN columns : cells[<<d, columns[i]>>].t # "null"
        /\ \A d \in Range(StoreDatasets) :
              (\A x \in returned :
                  x.d = d => \A j \in DOMAIN x.r.v : x.r.v[j].t = "null")
              => d \notin Range(index)

C3_Witness ==
    /\ pc = "returned"
    /\ Len(index) = 1
    /\ \E x \in returned : x.r = Scalar(Null) /\ x.d \notin Range(index)

\* C4: a call with methods = [] does not raise and returns a report with
\* zero columns and zero rows, whatever field_names and dtypes are.
C4_NoMethodsGivesEmptyReport ==
    (methods = << >> /\ pc \in {"returned", "raised", "done"}) =>
        /\ Succeeded
        /\ err = NoErr
        /\ columns = << >>
        /\ index = << >>

\* C5: each collected row is the dataset name followed by the values
\* score_func returned, in the order returned, one row per dataset of the
\* method's dataset list in list order; with one declared field a bare
\* scalar v and the tuple (v,) give the same row.
ReturnedFor(d, m) == (CHOOSE x \in returned : x.d = d /\ x.m = m).r
C5_CollectedRows ==
    /\ pc \in {"score", "merge"} =>
        /\ Len(data) = di - 1
        /\ \A i \in DOMAIN data :
              LET r == ReturnedFor(DatasetList[i], methods[mi])
              IN  /\ data[i][1] = DatasetList[i]
                  /\ Len(data[i]) = 1 + Len(r.v)
                  /\ \A j \in DOMAIN r.v : data[i][j + 1] = r.v[j]
    /\ pc = "merge" =>
        /\ Len(analysis) = Len(DatasetList)
        /\ \A i \in DOMAIN analysis : analysis[i][1] = DatasetList[i]
    /\ Len(field_names) = 1 =>
        \A d \in Range(StoreDatasets), v \in {IntV(1), StrV(0), Null} :
            /\ ScoreRow(d, Scalar(v)) = ScoreRow(d, Tuple(<<v>>))
            /\ ScoreRow(d, Scalar(v)) = <<d, v>>

C5_Witness ==
    /\ pc = "merge"
    /\ Len(field_names) = 2
    /\ Len(data) = 2
    /\ ReturnedFor(DatasetList[1], methods[mi]).k = "scalar"
    /\ ReturnedFor(DatasetList[2], methods[mi]).k = "tuple"

\* C6: create_report_from returns the text of the exception of a failed
\* assembly and does not export; it returns "" after a successful assembly
\* and export; and it returns "" only then.
C6_EmptyReturnMeansSuccess ==
    pc = "done" =>
        /\ err # NoErr => (out = Str(err) /\ ~exported)
        /\ err = NoErr => (out = << >> /\ exported)
        /\ out = << >> => (err = NoErr /\ exported)

\* C7: the returned table holds, for each field with a declared dtype,
\* the values cast to that dtype, a value that cannot be cast being left
\* as it was; and no value makes the cast fail the call.
DeclaredDtype(f) == dtypes[FieldPos(field_names, f)]
HasDtype(f) == FieldPos(field_names, f) <= Len(dtypes)
C7_LenientCoercion ==
    /\ ~(Failed /\ err = Exc("ValueError", <<"could not convert">>))
    /\ Succeeded =>
        \A p \in DOMAIN cells :
            (HasDtype(p[2][1]) /\ ~IsNull(cells[p])) =>
                \/ cells[p].t = DeclaredDtype(p[2][1])
                \/ ~Castable(cells[p], DeclaredDtype(p[2][1]))

\* C8: when score_func raises for a (dataset, method), or a method's
\* dataset list names a dataset the store does not list, the assembly
\* raises that error as it is, returns no table, and the failing call is
\* the last one made: nothing is retried and no later dataset or method is
\* processed.
C8_CollectionFailureAborts ==
    /\ \A x \in returned : x.r.k = "raise" =>
          /\ Failed
          /\ err = Exc("ScoreError", x.r.msg)
          /\ Last(calls) = Call("score", x.d, x.m)
          /\ Cardinality({i \in DOMAIN calls : calls[i] = Last(calls)}) = 1
    /\ \A i \in CallsOf("lookup") :
          /\ Failed
          /\ err = Exc("KeyError", <<calls[i].d>>)
          /\ calls[i].d \notin Range(StoreDatasets)
          /\ i = Len(calls)
    /\ Succeeded =>
          /\ \A x \in returned : x.r.k # "raise"
          /\ \A i \in DOMAIN methods :
                Range(method_datasets[methods[i]]) \subseteq Range(StoreDatasets)

C8_Witness ==
    /\ pc = "raised"
    /\ err.kind = "ScoreError"
    /\ mi = 2
    /\ \E p \in DOMAIN cells : ~IsNull(cells[p])

\* C9: in every state of the assembly, and so in the returned table, the
\* cell at (d, (f, m)) of a row d holds the f-th value score_func returned
\* for (d, m) when m has been merged and d is in m's dataset list (null
\* when score_func returned fewer values), and is null otherwise: merging
\* a method writes that method's columns only.  In the scenario of the
\* three datasets A, B, C with M1 on (A, B), M2 on (B, C) and the name
\* length as score, the table has the rows A, B, C with A: M1 = 1, M2 null;
\* B: both 1; C: M2 = 1, M1 null.
MethodPos(m) == CHOOSE i \in DOMAIN methods : methods[i] = m
Merged(m) == MethodPos(m) < mi
ValueAt(d, f, m) ==
    LET r == ReturnedFor(d, m)
        j == FieldPos(field_names, f)
    IN  IF j <= Len(r.v) THEN r.v[j] ELSE Null
Scenario ==
    /\ methods = <<"M1", "M2">>
    /\ field_names = <<"score">>
    /\ method_datasets = [m \in Range(StoreMethods) |->
                            IF m = "M1" THEN <<"A", "B">> ELSE <<"B", "C">>]
    /\ \A x \in returned : x.r = Scalar(IntV(Len(x.d)))
    /\ Succeeded
C9_CellsHoldReturnedValues ==
    /\ \A p \in DOMAIN cells :
          LET d == p[1]
              f == p[2][1]
              m == p[2][2]
          IN  cells[p] =
                IF Merged(m) /\ d \in Range(method_datasets[m])
                THEN ValueAt(d, f, m)
                ELSE Null
    /\ Scenario =>
          /\ index = <<"A", "B", "C">>
          /\ cells[<<"A", <<"score", "M1">>>>] = IntV(1)
          /\ cells[<<"A", <<"score", "M2">>>>] = Null
          /\ cells[<<"B", <<"score", "M1">>>>] = IntV(1)
          /\ cells[<<"B", <<"score", "M2">>>>] = IntV(1)
          /\ cells[<<"C", <<"score", "M1">>>>] = Null
          /\ cells[<<"C", <<"score", "M2">>>>] = IntV(1)

C9_Witness == Scenario /\ pc = "returned"

\* C10: the steps of one assembly are ordered: get_all_methods and the
\* validation come before get_all_datasets; every dataset of the store
\* has had its one get_dataset and its handle built before any get_method
\* or scoring; methods are fetched in the caller's order, each after the
\* previous one was scored on all its datasets and merged, and a scoring
\* belongs to the method fetched last; pruning comes after the last
\* method is merged and type coercion right after pruning.
Before(i, op, d, m) == {j \in 1..(i - 1) : calls[j] = Call(op, d, m)}
Fetches == SelectSeq(calls, LAMBDA c : c.op = "get_method")
C10_StepsAreOrdered ==
    /\ \A i \in CallsOf("get_all_datasets") :
          /\ i = 2
          /\ calls[1].op = "get_all_methods"
          /\ \A k \in DOMAIN methods : Known(methods[k])
    /\ \A i \in CallsOf("get_method") \cup CallsOf("score") \cup CallsOf("lookup") :
          \A d \in Range(StoreDatasets) :
              /\ Cardinality(Before(i, "get_dataset", d, "-")) = 1
              /\ Cardinality(Before(i, "file_client", d, "-")) = 1
    /\ \A d \in Range(StoreDatasets) :
          Cardinality({i \in CallsOf("get_dataset") : calls[i].d = d}) <= 1
    /\ Len(Fetches) <= Len(methods)
    /\ \A k \in DOMAIN Fetches : Fetches[k].m = methods[k]
    /\ \A i \in CallsOf("get_method") :
          LET k == Cardinality({j \in 1..i : calls[j].op = "get_method"})
          IN  k > 1 =>
                /\ calls[i - 1] = Call("merge", "-", methods[k - 1])
                /\ \A d \in Range(method_datasets[methods[k - 1]]) :
                      Cardinality(Before(i, "score", d, methods[k - 1])) = 1
    /\ \A i \in CallsOf("score") :
          LET k == Cardinality({j \in 1..i : calls[j].op = "get_method"})
          IN  /\ k >= 1
              /\ calls[i].m = methods[k]
              /\ Before(i, "merge", "-", methods[k]) = {}
    /\ \A i \in CallsOf("dropna") :
          /\ \A k \in DOMAIN methods :
                Cardinality(Before(i, "merge", "-", methods[k])) = 1
          /\ \A j \in (i + 1)..Len(calls) : calls[j].op = "astype"
    /\ \A i \in CallsOf("astype") : i > 1 /\ calls[i - 1].op = "dropna"

C10_Witness ==
    /\ pc = "returned"
    /\ Len(methods) = 2
    /\ Cardinality(CallsOf("score")) = 4

\* ==================================================================
\* logging_logic.py: TqdmLogFormatter and TqdmLogger
\* ==================================================================
\* One behaviour is a single-threaded run of with statements on one logger:
\* scopes are entered and left innermost first.
BareFormat == "%(message)s"
Formatters == {"module", "custom", "None"}
Terminators == {"\n", "\r"}
HandlerLists ==
    UNION {[1..k -> {Handler(f, t) : f \in Formatters, t \in Terminators}] :
              k \in 1..MaxHandlers}

\* the report functions are not running
ReportNotCalled ==
    /\ methods = << >>
    /\ field_names = <<"score">>
    /\ dtypes = << >>
    /\ method_datasets = [m \in Range(StoreMethods) |-> << >>]
    /\ pc = "validate"
    /\ calls = << >>
    /\ index = << >>
    /\ columns = << >>
    /\ cells = << >>
    /\ instances = << >>
    /\ file_clients = {}
    /\ mi = 1
    /\ di = 1
    /\ data = << >>
    /\ analysis = << >>
    /\ returned = {}
    /\ err = NoErr
    /\ exported = FALSE
    /\ out = NoOut

report_state == <<inputs, pc, calls, table, instances, file_clients, loop,
                  returned, err, exported, out>>

InitLog ==
    /\ ReportNotCalled
    /\ handlers \in HandlerLists
    /\ scopes = << >>
    /\ original_formatters = [i \in 1..MaxGuards |-> Unset]
    /\ before = handlers
    /\ emitted = << >>

\* lines 25-33: what __enter__ saves and what it leaves on the handlers
SavedFormatters(hs) == [h \in DOMAIN hs |-> hs[h].formatter]
Suppressed(hs) == [h \in DOMAIN hs |-> Handler(BareFormat, "")]

\* lines 38-40: zip(handlers, originals), terminator and formatter of each pair
Restored(hs, originals) ==
    [h \in DOMAIN hs |->
        IF h <= Len(originals) THEN Handler(originals[h], "\n") ELSE hs[h]]

\* lines 24-35: __enter__ of the TqdmLogFormatter object g
Enter(g) ==
    /\ Len(scopes) < MaxDepth
    /\ original_formatters' =
          [original_formatters EXCEPT ![g] = SavedFormatters(handlers)]
    /\ handlers' = Suppressed(handlers)
    /\ scopes' = Append(scopes, g)
    /\ before' = IF scopes = << >> THEN handlers ELSE before
    /\ UNCHANGED <<report_state, emitted>>

\* lines 37-40: __exit__ of the innermost open scope; it ignores its
\* arguments and returns None, so it acts the same when the body raised
Exit ==
    /\ scopes # << >>
    /\ handlers' = Restored(handlers, original_formatters[Last(scopes)])
    /\ scopes' = SubSeq(scopes, 1, Len(scopes) - 1)
    /\ UNCHANGED <<report_state, original_formatters, before, emitted>>

\* logger.info(...) by the body of a scope or outside of one: each handler
\* emits with the formatter and terminator it has
Info ==
    /\ emitted' = handlers
    /\ UNCHANGED <<report_state, handlers, scopes, original_formatters, before>>

\* lines 49-51: TqdmLogger.write, a scope of a TqdmLogFormatter of its own
\* around one logger.info
Write ==
    /\ emitted' = Suppressed(handlers)
    /\ handlers' = Restored(Suppressed(handlers), SavedFormatters(handlers))
    /\ before' = IF scopes = << >> THEN handlers ELSE before
    /\ UNCHANGED <<report_state, scopes, original_formatters>>

NextLog ==
    \/ \E g \in 1..MaxGuards : Enter(g)
    \/ Exit
    \/ Info
    \/ Write

SpecLog == InitLog /\ [][NextLog]_vars

\* C11: while a TqdmLogFormatter scope is open every handler of the logger
\* has the empty terminator and the bare message formatter, and when no
\* scope is open every handler has the formatter and the terminator it had
\* before the outermost scope (a with statement or a TqdmLogger.write) was
\* entered.
C11_SaveRestoreGuard ==
    /\ scopes # << >> =>
          \A h \in DOMAIN handlers : handlers[h] = Handler(BareFormat, "")
    /\ scopes = << >> => handlers = before

====
